---------------------------- MODULE Spec2Model ----------------------------
(***************************************************************************)
(* A model of patch.py, the hdiff patcher: discovery of multi-part and     *)
(* single archives, extraction, the version-gated audio migration, the     *)
(* delete manifest, the diff manifest, and the final cleanup.              *)
(*                                                                         *)
(* File names are sequences of tokens.  A token is a maximal run of        *)
(* digits ("001"), a maximal run of letters ("zip"), or one of the         *)
(* separators "." and "_".  Every regular expression of the program        *)
(* anchors its digit runs and its extensions on separators, so a match on  *)
(* characters is a match on tokens.  The extension "7z" is the digit token *)
(* "7" followed by the letter token "z".                                   *)
(***************************************************************************)
EXTENDS Integers, Sequences, FiniteSets, TLC

\* ------------------------------------------------------------------------
\* Tokens

\* int() of a digit run.
NumVal ==
    ("0" :> 0) @@ ("1" :> 1) @@ ("2" :> 2) @@ ("3" :> 3) @@ ("4" :> 4) @@
    ("5" :> 5) @@ ("6" :> 6) @@ ("7" :> 7) @@ ("9" :> 9) @@ ("10" :> 10) @@
    ("001" :> 1) @@ ("002" :> 2) @@ ("003" :> 3)

\* \d+ on one token.
IsDigits(t) == t \in DOMAIN NumVal

\* str.lower() on one token: only letter runs with capitals change.
LowerTok(t) ==
    CASE t = "A" -> "a"
      [] t = "ZIP" -> "zip"
      [] t = "RAR" -> "rar"
      [] t = "PART" -> "part"
      [] t = "Z" -> "z"
      [] OTHER -> t

\* str.lower() on a name.
Lower(name) == [i \in 1..Len(name) |-> LowerTok(name[i])]

\* The first n tokens / the tokens from position i on.
Take(s, n) == SubSeq(s, 1, n)
Drop(s, i) == SubSeq(s, i, Len(s))

\* str.startswith and str.endswith on token sequences.
StartsWith(s, p) == Len(s) >= Len(p) /\ Take(s, Len(p)) = p
EndsWith(s, p) == Len(s) >= Len(p) /\ Drop(s, Len(s) - Len(p) + 1) = p

\* \.(7z|zip|rar) ending at position k of l.
ExtAt(l, k) ==
    \/ k >= 2 /\ l[k] \in {"zip", "rar"} /\ l[k - 1] = "."
    \/ k >= 3 /\ l[k] = "z" /\ l[k - 1] = "7" /\ l[k - 2] = "."

\* 0*1 on one token: a digit run of value one.
IsOne(t) == IsDigits(t) /\ NumVal[t] = 1

\* re.search(r"\.(7z|zip|rar)\.0*1$", l)
MatchExtFirst(l) ==
    LET n == Len(l) IN
    n >= 4 /\ IsOne(l[n]) /\ l[n - 1] = "." /\ ExtAt(l, n - 2)

\* re.search(r"\.(7z|zip|rar)\.0*\d+$", l)
MatchExtPart(l) ==
    LET n == Len(l) IN
    n >= 4 /\ IsDigits(l[n]) /\ l[n - 1] = "." /\ ExtAt(l, n - 2)

\* The suffix ".part1.rar".
Part1Rar == <<".", "part", "1", ".", "rar">>

\* re.search(r"\.part\d+\.rar$", l)
MatchPartRar(l) ==
    LET n == Len(l) IN
    /\ n >= 5
    /\ l[n] = "rar" /\ l[n - 1] = "." /\ IsDigits(l[n - 2])
    /\ l[n - 3] = "part" /\ l[n - 4] = "."

is_multipart_first(name) ==
    LET lower == Lower(name) IN
    \/ MatchExtFirst(lower)
    \/ EndsWith(lower, Part1Rar)

\* Variant of is_part_file_name without the two patterns for later parts.
is_part_file_name_first_only(name) ==
    LET ln == Lower(name) IN
    \/ MatchExtFirst(ln)
    \/ EndsWith(ln, Part1Rar)

is_part_file_name(name) ==
    LET ln == Lower(name) IN
    \/ MatchExtFirst(ln)
    \/ EndsWith(ln, Part1Rar)
    \/ MatchExtPart(ln)
    \/ MatchPartRar(ln)

\* Whether a directory entry matches a glob pattern segment for segment,
\* under the platform's case rule: the file system compares names exactly
\* when it is case-sensitive and folds case when it is not.
SameName(cs, x, y) == IF cs THEN x = y ELSE Lower(x) = Lower(y)

\* glob(prefix + ".*"): the names that start with prefix and a dot.
GlobPrefixDot(cs, prefix, name) ==
    LET p == prefix \o <<".">> IN
    Len(name) >= Len(p) /\ SameName(cs, Take(name, Len(p)), p)

\* glob(prefix + ".part*.rar"): prefix, ".part", anything, ".rar".
GlobPartRar(cs, prefix, name) ==
    LET n == Len(name)
        p == prefix \o <<".">>
        k == Len(p)
    IN  /\ n >= k + 3
        /\ SameName(cs, Take(name, k), p)
        /\ SameName(cs, Drop(name, n - 1), <<".", "rar">>)
        /\ SameName(cs, <<name[k + 1]>>, <<"part">>)

\* glob("*.zip"), glob("*.7z"), glob("*.rar")
GlobExt(cs, name) ==
    \/ \E e \in {"zip", "rar"} : Len(name) >= 2 /\ SameName(cs, Drop(name, Len(name) - 1), <<".", e>>)
    \/ Len(name) >= 3 /\ SameName(cs, Drop(name, Len(name) - 2), <<".", "7", "z">>)

\* collect_parts_for_first, as the set of names it returns (it returns them
\* sorted; the caller only unlinks each, so the order has no effect).
\* Variant of collect_parts_for_first that keeps only the names
\* is_part_file_name accepts.
collect_parts_numbered_only(cs, first, dir) ==
    LET lower == Lower(first) IN
    IF MatchExtFirst(lower)
    THEN {c \in dir : /\ GlobPrefixDot(cs, Take(lower, Len(lower) - 2), c)
                      /\ is_part_file_name(c)}
    ELSE IF EndsWith(lower, Part1Rar)
    THEN {c \in dir : GlobPartRar(cs, Take(first, Len(first) - Len(Part1Rar)), c)}
    ELSE {first}

collect_parts_for_first(cs, first, dir) ==
    LET lower == Lower(first) IN
    IF MatchExtFirst(lower)
    THEN {c \in dir : GlobPrefixDot(cs, Take(lower, Len(lower) - 2), c)}
    ELSE IF EndsWith(lower, Part1Rar)
    THEN {c \in dir : GlobPartRar(cs, Take(first, Len(first) - Len(Part1Rar)), c)}
    ELSE {first}

logical_name_from_first(first) ==
    LET lower == Lower(first) IN
    IF MatchExtFirst(lower) THEN Take(lower, Len(lower) - 2) ELSE first

\* ------------------------------------------------------------------------
\* Versions

\* The migration threshold, version 3.6.
ThresholdMajor == 3
ThresholdMinor == 6

\* Whether s holds a "." token.
HasDot(s) == \E i \in 1..Len(s) : s[i] = "."

\* The position of the first "." of s.
FirstDot(s) == CHOOSE i \in 1..Len(s) : s[i] = "." /\ \A j \in 1..(i - 1) : s[j] # "."

\* str.split("."): the pieces between the dots, each a token sequence.
RECURSIVE SplitDot(_)
SplitDot(s) ==
    IF ~HasDot(s) THEN <<s>>
    ELSE <<Take(s, FirstDot(s) - 1)>> \o SplitDot(Drop(s, FirstDot(s) + 1))

\* Variant of normalize_version that returns every version as it is.
normalize_version_unchanged(v) == v

normalize_version(v) ==
    LET parts == SplitDot(v) IN
    IF Len(parts) = 2 THEN parts[1] \o <<".">> \o parts[2] \o <<".", "0">> ELSE v

\* \d+\.\d+ at position i of s.
TwoAt(s, i) ==
    i + 2 <= Len(s) /\ IsDigits(s[i]) /\ s[i + 1] = "." /\ IsDigits(s[i + 2])

\* \d+\.\d+\.\d+ at position i of s.
ThreeAt(s, i) ==
    TwoAt(s, i) /\ i + 4 <= Len(s) /\ s[i + 3] = "." /\ IsDigits(s[i + 4])

\* The length matched by (\d+\.\d+(?:\.\d+)?)_ at position i: the optional
\* component is taken when the underscore follows it, else dropped; 0 is no match.
FromLenAt(s, i) ==
    IF ThreeAt(s, i) /\ i + 5 <= Len(s) /\ s[i + 5] = "_" THEN 5
    ELSE IF TwoAt(s, i) /\ i + 3 <= Len(s) /\ s[i + 3] = "_" THEN 3
    ELSE 0

\* The length matched by the closing (\d+\.\d+(?:\.\d+)?) at position j (greedy).
ToLenAt(s, j) == IF ThreeAt(s, j) THEN 5 ELSE IF TwoAt(s, j) THEN 3 ELSE 0

\* Whether the pattern _(from)_(to) matches s starting at position i.
PairAt(s, i) ==
    /\ s[i] = "_"
    /\ FromLenAt(s, i + 1) > 0
    /\ ToLenAt(s, i + 1 + FromLenAt(s, i + 1) + 1) > 0

NoVersion == <<>>

\* parse_from_to_versions_from_name: re.search takes the leftmost match.
\* The result (None, None) is (NoVersion, NoVersion).
parse_from_to_versions_from_name(name) ==
    IF \E i \in 1..Len(name) : PairAt(name, i)
    THEN LET i == CHOOSE k \in 1..Len(name) :
                      PairAt(name, k) /\ \A j \in 1..(k - 1) : ~PairAt(name, j)
             fl == FromLenAt(name, i + 1)
             j == i + 1 + fl + 1
         IN  << normalize_version(SubSeq(name, i + 1, i + fl)),
                normalize_version(SubSeq(name, j, j + ToLenAt(name, j) - 1)) >>
    ELSE <<NoVersion, NoVersion>>

\* int(piece) succeeds: the piece is one digit run.
IsInt(piece) == Len(piece) = 1 /\ IsDigits(piece[1])

\* (a, b) < (c, d) on tuples.
\* Variant of the tuple comparison that compares the minors whatever the majors.
TupleLessMinorAlone(a, b, c, d) == a < c \/ b < d

TupleLess(a, b, c, d) == a < c \/ (a = c /\ b < d)

\* The flag needs_migration of process_logical_archive.
needs_migration(archive_name) ==
    LET vs == parse_from_to_versions_from_name(archive_name)
        from_v == vs[1]
        to_v == vs[2]
    IN  /\ from_v # NoVersion /\ to_v # NoVersion
        /\ LET f == SplitDot(from_v)
               t == SplitDot(to_v)
           IN  /\ Len(f) >= 2 /\ Len(t) >= 2
               /\ IsInt(f[1]) /\ IsInt(f[2]) /\ IsInt(t[1]) /\ IsInt(t[2])
               /\ TupleLess(NumVal[f[1][1]], NumVal[f[2][1]], ThresholdMajor, ThresholdMinor)
               /\ ~TupleLess(NumVal[t[1][1]], NumVal[t[2][1]], ThresholdMajor, ThresholdMinor)

\* The early returns of migrate_audio_if_needed on its version argument:
\* version_to is None, does not split into three integers, or is below 3.6.
migration_version_ok(version_to) ==
    /\ version_to # NoVersion
    /\ LET p == SplitDot(version_to) IN
       /\ Len(p) = 3
       /\ IsInt(p[1]) /\ IsInt(p[2]) /\ IsInt(p[3])
       /\ ~TupleLess(NumVal[p[1][1]], NumVal[p[2][1]], ThresholdMajor, ThresholdMinor)

\* ------------------------------------------------------------------------
\* The working directory and the game tree

\* Bounds of the model.
MaxArchives == 2
MaxFaults == 1
MaxDiffEntries == 2
MaxDelEntries == 2
MaxRuns == 2

\* TOOLS
Tool7z == <<"7", "z", ".", "exe">>
ToolHpatchz == <<"hpatchz", ".", "exe">>
TOOLS == {Tool7z, ToolHpatchz}

\* The manifests and the configuration artifact, files of the working directory.
DeleteTxt == <<"deletefiles", ".", "txt">>
HdiffTxt == <<"hdifffiles", ".", "txt">>
ConfigIni == <<"config", ".", "ini">>

\* The archive files the working directory may hold at the start of a run.
FA1 == <<"A", "_", "3", ".", "5", "_", "3", ".", "6", ".", "7", "z", ".", "001">>
FA2 == <<"A", "_", "3", ".", "5", "_", "3", ".", "6", ".", "7", "z", ".", "002">>
FC1 == <<"c", ".", "part", "1", ".", "rar">>
FC2 == <<"c", ".", "part", "2", ".", "rar">>
FO == <<"other", ".", "zip">>
FU1 == <<"update", ".", "zip", ".", "001">>
FU2 == <<"update", ".", "zip", ".", "002">>
\* A file that is no part of an archive and shares the prefix "update.zip.".
FUT == <<"update", ".", "zip", ".", "txt">>

\* Each logical archive with its physical files; the first is the file the
\* archiver is pointed at.
Groups == { <<FA1, FA2>>, <<FC1, FC2>>, <<FU1, FU2>>, <<FO>> }
FilesOf(g) == {g[i] : i \in 1..Len(g)}
PartFiles == {FA1, FA2, FC1, FC2, FU1, FU2}
FirstParts == {FA1, FC1, FU1}

\* The archive files that may resist deletion: the parts of one multi-part
\* archive and a single archive.
Lockable == {FC1, FC2, FO}

\* sorted(): the names above in the order Python's string comparison gives.
NameOrder == <<FA1, FA2, FC1, FC2, FO, FU1, FU2, FUT>>
SortByName(S) ==
    IF Cardinality(S) <= 1
    THEN IF S = {} THEN <<>> ELSE <<CHOOSE x \in S : TRUE>>
    ELSE SelectSeq(NameOrder, LAMBDA n : n \in S)

\* Paths below the game folder that delete manifests name: a file, a
\* directory with one file in it, and a path that never exists.  The empty
\* path is what a blank manifest line strips to: Path("") is the working
\* directory itself.
TreePaths == {"f1", "d1", "d1/x"}
\* Further paths a game tree may hold: a directory e1 with the directories
\* e1/e2 and e1/e3 in it, and a file in e1/e2.
TreeUniverse == TreePaths \cup {"e1", "e1/e2", "e1/e2/y", "e1/e3"}
BlankLine == ""
\* The directory a path lies in; the blank path stands for the game folder.
Parent(p) ==
    CASE p = "d1/x" -> "d1"
      [] p = "e1/e2" -> "e1"
      [] p = "e1/e3" -> "e1"
      [] p = "e1/e2/y" -> "e1/e2"
      [] OTHER -> BlankLine
IsDirPath(p) == p \in {"d1", "e1", "e1/e2", "e1/e3"}
\* q is p or lies below p.
IsUnder(q, p) == q = p \/ (p # BlankLine /\ (Parent(q) = p \/ Parent(Parent(q)) = p))
\* sorted(game_folder.rglob("*"), reverse=True), the directories of it.
DirsDeepestFirst == <<"e1/e3", "e1/e2", "e1", "d1">>

\* Targets of diff manifests; the artifact of target t is t.hdiff.
DiffTargets == <<"t1", "t2", "t3">>
HdiffPath(t) == CASE t = "t1" -> "t1.hdiff" [] t = "t2" -> "t2.hdiff" [] OTHER -> "t3.hdiff"

\* Files of the old audio tree.
AudioFiles == {"bank"}

\* What an archive holds: a delete manifest, a diff manifest, diff artifacts.
NoPayload == [hasDel |-> FALSE, del |-> <<>>, hasDiff |-> FALSE, diff |-> <<>>, hd |-> {}]
FullDiff == SubSeq(DiffTargets, 1, MaxDiffEntries)
PoolPayloads ==
    { [hasDel |-> d, del |-> IF d THEN <<"f1">> ELSE <<>>,
       hasDiff |-> h, diff |-> IF h THEN FullDiff ELSE <<>>,
       hd |-> IF h THEN {FullDiff[i] : i \in 1..Len(FullDiff)} ELSE {}]
      : d \in BOOLEAN, h \in BOOLEAN } \ {NoPayload}

\* A manifest on disk: the archive whose extraction wrote it, and its lines.
NoManifest == [owner |-> <<>>, entries |-> <<>>]

VARIABLES
    pc,             \* the position of main
    run,            \* the number of the run (1: the first)
    phase,          \* "multi" in extract_all_multipart_and_process, "single" in main's loop
    caseSensitive,  \* whether the file system compares names exactly
    gameFolder,     \* whether a supported game folder exists
    cwdFiles,       \* the names of the files of the working directory
    locked,         \* the files of the working directory whose unlink fails
    contents,       \* what each archive holds, by the file the archiver is pointed at
    deleteTxt,      \* the text of deletefiles.txt (stale when the file is gone)
    hdiffTxt,       \* the text of hdifffiles.txt (stale when the file is gone)
    tree,           \* the paths of TreeUniverse that exist
    lockedTree,     \* the paths below the game folder whose removal fails
    hdiffs,         \* the targets whose .hdiff artifact exists
    audioOld,       \* the old audio tree: [exists, files]
    audioNew,       \* the AudioAssets tree: [exists, files]
    firsts,         \* multipart_firsts still to process
    singles,        \* filtered archives still to process
    cur,            \* archive_name of process_logical_archive
    curKey,         \* the file the archiver was pointed at for cur
    parts,          \* parts of the last extract_multipart_and_process
    idx,            \* the line apply_hdiff is at
    patched,        \* patched of apply_hdiff
    patched_any,    \* patched_any of extract_all_multipart_and_process
    patch_done,     \* patch_done of main
    GAME_VERSION,   \* the global GAME_VERSION
    config,         \* game_version of config.ini, NoVersion when not written
    log,            \* the messages logged in this run
    \* history, for the properties
    steps,          \* the steps of this run, in order: [a, s]
    applied,        \* per diff target, how often hpatchz succeeded on it
    toolOk,         \* hpatchz succeeded in this run
    diffFailed,     \* hpatchz failed in this run
    delCount,       \* per archive, how often delete_files processed its manifest
    diffCount,      \* per archive, how often apply_hdiff processed its manifest
    extracted,      \* the manifests extracted in this run: [kind, owner]
    startFiles,     \* the working directory at the start of this run
    startTree,      \* the game tree at the start of this run
    prevPatched,    \* patch_done at the end of the previous run
    faults,         \* how many failures the environment has produced
    verInput,       \* the version pair an archive name was written from
    artifactUses,   \* per diff target, how often hpatchz succeeded on the artifact now on disk
    configWrites    \* how often this run wrote config.ini

vars == << pc, run, phase, caseSensitive, gameFolder, cwdFiles, locked, contents,
           deleteTxt, hdiffTxt, tree, lockedTree, hdiffs, audioOld, audioNew,
           firsts, singles, cur, curKey, parts, idx, patched, patched_any,
           patch_done, GAME_VERSION, config, log, steps, applied, toolOk,
           diffFailed, delCount, diffCount, extracted, startFiles, prevPatched,
           faults, verInput, artifactUses, configWrites, startTree >>

\* ------------------------------------------------------------------------
\* Archive names written from a version pair

\* A version is <<major, minor, patch>>; patch -1 is a two-component version.
NumTok(n) == CHOOSE t \in {"0", "1", "2", "3", "4", "5", "6", "9", "10"} : NumVal[t] = n
VerTokens(v) ==
    <<NumTok(v[1]), ".", NumTok(v[2])>> \o (IF v[3] >= 0 THEN <<".", NumTok(v[3])>> ELSE <<>>)
ExtTokens(e) == IF e = "7z" THEN <<".", "7", "z">> ELSE <<".", e>>

VersionsIn == { <<ma, mi, pa>> : ma \in {2, 3, 4}, mi \in {5, 6, 10}, pa \in {-1, 9} }
NoInput == [kind |-> "none", f |-> <<0, 0, -1>>, t |-> <<0, 0, -1>>, ext |-> "zip"]
PairInputs == [kind : {"pair"}, f : VersionsIn, t : VersionsIn, ext : {"zip", "7z"}]
\* Names from which no (from, to) pair can be parsed: the leading underscore
\* missing, a one-component version, a four-component version, a letter
\* before the second version, no version at all.
MalformedInputs ==
    [kind : {"nounderscore", "onecomp", "fourcomp", "letter", "plain"},
     f : {<<3, 5, -1>>, <<3, 5, 0>>}, t : {<<3, 6, -1>>, <<4, 10, 9>>}, ext : {"zip", "7z"}]

RenderName(in) ==
    CASE in.kind = "pair" ->
            <<"g", "_">> \o VerTokens(in.f) \o <<"_">> \o VerTokens(in.t) \o ExtTokens(in.ext)
      [] in.kind = "nounderscore" ->
            <<"g">> \o VerTokens(in.f) \o <<"_">> \o VerTokens(in.t) \o ExtTokens(in.ext)
      [] in.kind = "onecomp" ->
            <<"g", "_", NumTok(in.f[1]), "_">> \o VerTokens(in.t) \o ExtTokens(in.ext)
      [] in.kind = "fourcomp" ->
            <<"g", "_">> \o VerTokens(<<in.f[1], in.f[2], 0>>) \o <<".", "1", "_">>
                \o VerTokens(in.t) \o ExtTokens(in.ext)
      [] in.kind = "letter" ->
            <<"g", "_">> \o VerTokens(in.f) \o <<"_", "x">> \o VerTokens(in.t) \o ExtTokens(in.ext)
      [] OTHER -> <<"g">> \o ExtTokens(in.ext)

\* ------------------------------------------------------------------------
\* Initial states

\* The version detect_game_version_after_patch finds when it finds one.
DetectedVersion == <<"3", ".", "6", ".", "0">>

Gone == [exists |-> FALSE, files |-> {}]

InitLocals ==
    /\ pc = "start"
    /\ run = 1
    /\ phase = "multi"
    /\ firsts = <<>>
    /\ singles = <<>>
    /\ cur = <<>>
    /\ curKey = <<>>
    /\ parts = {}
    /\ idx = 0
    /\ patched = FALSE
    /\ patched_any = FALSE
    /\ patch_done = FALSE
    /\ GAME_VERSION = NoVersion
    /\ config = NoVersion
    /\ log = {}
    /\ steps = <<>>
    /\ applied = [t \in {DiffTargets[i] : i \in 1..Len(DiffTargets)} |-> 0]
    /\ artifactUses = [t \in {DiffTargets[i] : i \in 1..Len(DiffTargets)} |-> 0]
    /\ configWrites = 0
    /\ toolOk = FALSE
    /\ diffFailed = FALSE
    /\ delCount = [a \in DOMAIN contents |-> 0]
    /\ diffCount = [a \in DOMAIN contents |-> 0]
    /\ extracted = {}
    /\ startFiles = cwdFiles
    /\ startTree = tree
    /\ prevPatched = FALSE
    /\ faults = Cardinality(locked) + Cardinality(lockedTree)
    /\ deleteTxt = NoManifest
    /\ hdiffTxt = NoManifest
    /\ hdiffs = {}
    /\ audioNew = Gone

\* A working directory with up to MaxArchives archives, up to MaxFaults of
\* whose files (or manifests, or diff artifacts) resist deletion.
InitPool ==
    /\ gameFolder = TRUE
    /\ verInput = NoInput
    /\ \E G \in SUBSET Groups :
         /\ Cardinality(G) <= MaxArchives
         \* the platform and the old audio tree vary where an archive reads them
         /\ caseSensitive \in IF <<FA1, FA2>> \in G THEN BOOLEAN ELSE {FALSE}
         /\ audioOld \in IF <<FA1, FA2>> \in G
                         THEN {Gone, [exists |-> TRUE, files |-> AudioFiles]}
                         ELSE {Gone}
         /\ \E extra \in SUBSET {FUT} :
              /\ (extra # {} => <<FU1, FU2>> \in G)
              /\ cwdFiles = TOOLS \cup UNION {FilesOf(g) : g \in G} \cup extra
         /\ contents \in [{g[1] : g \in G} -> PoolPayloads]
    /\ \E L \in SUBSET ((cwdFiles \cap Lockable) \cup {DeleteTxt, HdiffTxt}),
          LT \in SUBSET {"t1.hdiff"} :
         /\ Cardinality(L) + Cardinality(LT) <= MaxFaults
         /\ locked = L
         /\ lockedTree = LT
    /\ tree = TreePaths
    /\ InitLocals

\* One single archive whose name is written from a version pair, or malformed.
InitNames ==
    /\ gameFolder = TRUE
    /\ caseSensitive = TRUE
    /\ verInput \in PairInputs \cup MalformedInputs
    /\ cwdFiles = TOOLS \cup {RenderName(verInput)}
    /\ contents = (RenderName(verInput) :>
                     [hasDel |-> TRUE, del |-> <<"f1">>, hasDiff |-> FALSE, diff |-> <<>>, hd |-> {}])
    /\ locked = {}
    /\ lockedTree = {}
    /\ audioOld = [exists |-> TRUE, files |-> AudioFiles]
    /\ tree = TreePaths
    /\ InitLocals

\* The lines a delete manifest may hold.
DelEntries == {"f1", "d1", "d1/x", "gone", BlankLine}
DelManifests == UNION { [1..n -> DelEntries] : n \in 1..MaxDelEntries }

\* One single archive with a delete manifest, some of whose targets resist deletion.
InitDelete ==
    /\ gameFolder = TRUE
    /\ caseSensitive = TRUE
    /\ verInput = NoInput
    /\ cwdFiles = TOOLS \cup {FO}
    /\ \E m \in DelManifests :
         contents = (FO :> [hasDel |-> TRUE, del |-> m, hasDiff |-> FALSE, diff |-> <<>>, hd |-> {}])
    /\ locked \in SUBSET {DeleteTxt}
    /\ lockedTree \in SUBSET {"f1", "d1/x"}
    /\ audioOld = Gone
    /\ tree = TreePaths
    /\ InitLocals

\* The lines a diff manifest may hold: targets, some more than once, and
\* blank lines.
DiffEntries == {DiffTargets[i] : i \in 1..MaxDiffEntries} \cup {BlankLine}
DiffManifests == UNION { [1..n -> DiffEntries] : n \in 1..MaxDiffEntries }

\* One single archive with a diff manifest, the artifacts of some of its
\* targets missing from the archive, one artifact resisting deletion.
InitDiff ==
    /\ gameFolder = TRUE
    /\ caseSensitive = TRUE
    /\ verInput = NoInput
    /\ cwdFiles = TOOLS \cup {FO}
    /\ \E m \in DiffManifests :
         \E hd \in SUBSET ({m[i] : i \in 1..Len(m)} \ {BlankLine}) :
            contents = (FO :> [hasDel |-> FALSE, del |-> <<>>, hasDiff |-> TRUE, diff |-> m, hd |-> hd])
    /\ locked = {}
    /\ lockedTree \in SUBSET {"t1.hdiff"}
    /\ audioOld = Gone
    /\ tree = TreePaths
    /\ InitLocals

\* The game trees: the sets of paths that hold, with a path, the directory
\* it lies in.
GameTrees == {t \in SUBSET TreeUniverse : \A p \in t : Parent(p) = BlankLine \/ Parent(p) \in t}

\* A working directory with no archive and any game tree.
InitTrees ==
    /\ gameFolder = TRUE
    /\ caseSensitive = TRUE
    /\ verInput = NoInput
    /\ cwdFiles = TOOLS
    /\ contents = <<>>
    /\ locked = {}
    /\ lockedTree = {}
    /\ audioOld \in {Gone, [exists |-> TRUE, files |-> {}]}
    /\ tree \in GameTrees
    /\ InitLocals

\* A working directory in which the game folder or a tool is missing.
InitSetup ==
    /\ gameFolder \in BOOLEAN
    /\ caseSensitive = TRUE
    /\ verInput = NoInput
    /\ \E T \in SUBSET TOOLS :
         /\ ~(gameFolder /\ T = TOOLS)
         /\ cwdFiles = T \cup {FO}
    /\ contents = (FO :> CHOOSE p \in PoolPayloads : p.hasDel /\ p.hasDiff)
    /\ locked = {}
    /\ lockedTree = {}
    /\ audioOld = Gone
    /\ tree = TreePaths
    /\ InitLocals

Init == InitPool \/ InitNames \/ InitDelete \/ InitDiff \/ InitTrees \/ InitSetup

\* ------------------------------------------------------------------------
\* Helpers of the actions

\* A logged message: level, text and the path or name it is about.
Msg(lvl, m, about) == [lvl |-> lvl, msg |-> m, about |-> about]

\* The files an archive's extraction writes, and the texts of the manifests after it.
ManifestFiles(p) ==
    (IF p.hasDel THEN {DeleteTxt} ELSE {}) \cup (IF p.hasDiff THEN {HdiffTxt} ELSE {})
ManifestsOf(p, a) ==
    (IF p.hasDel THEN {[kind |-> "delete", owner |-> a]} ELSE {})
        \cup (IF p.hasDiff THEN {[kind |-> "diff", owner |-> a]} ELSE {})

\* shutil.rmtree(dir, ignore_errors=True) on the paths of the game tree: a path
\* stays when it is, or lies above, an existing path whose removal fails.
RmTree(t, dir) ==
    {p \in t : ~IsUnder(p, dir) \/ \E q \in t \cap lockedTree : IsUnder(q, p)}

\* The state delete_files works on.
DiskNow ==
    [cwd |-> cwdFiles, tree |-> tree, hd |-> hdiffs, gf |-> gameFolder,
     aold |-> audioOld, anew |-> audioNew, log |-> log]

\* One pass of the loop of delete_files over a manifest line.
DeleteLine(st, line) ==
    IF line = BlankLine
    THEN \* Path("") is the working directory: it exists and is a directory.
         LET t == {p \in st.tree : \E q \in st.tree \cap lockedTree : IsUnder(q, p)}
             h == {x \in st.hd : HdiffPath(x) \in lockedTree}
         IN  [cwd |-> st.cwd \cap locked, tree |-> t, hd |-> h,
              gf |-> st.gf /\ (t # {} \/ h # {}),
              aold |-> Gone, anew |-> Gone,
              log |-> st.log \cup {Msg("info", "Deleted directory tree", <<".">>)}]
    ELSE IF line \notin st.tree THEN st
    ELSE IF ~IsDirPath(line)
    THEN IF line \in lockedTree
         THEN [st EXCEPT !.log = @ \cup {Msg("warning", "Failed to delete", <<line>>)}]
         ELSE [st EXCEPT !.tree = @ \ {line},
                         !.log = @ \cup {Msg("info", "Deleted file", <<line>>)}]
    ELSE [st EXCEPT !.tree = RmTree(st.tree, line),
                    !.log = @ \cup {Msg("info", "Deleted directory tree", <<line>>)}]

RECURSIVE DeleteLines(_, _, _)
DeleteLines(st, lines, i) ==
    IF i > Len(lines) THEN st ELSE DeleteLines(DeleteLine(st, lines[i]), lines, i + 1)

\* delete_files: the disk after it.
delete_files(st) ==
    IF DeleteTxt \notin st.cwd THEN st
    ELSE LET after == DeleteLines(st, deleteTxt.entries, 1)
         IN  [after EXCEPT !.cwd = IF DeleteTxt \in locked THEN @ ELSE @ \ {DeleteTxt}]

\* The patterns of cleanup_aux_files, on the names of the working directory.
AuxExt == {"py", "bat", "zip", "rar", "dmp", "bak", "txt", "log"}
AuxPattern(cs, name) ==
    LET n == Len(name) IN
    \/ \E e \in AuxExt : n >= 2 /\ SameName(cs, Drop(name, n - 1), <<".", e>>)
    \/ n >= 3 /\ SameName(cs, Drop(name, n - 2), <<".", "7", "z">>)
    \/ \E i \in 1..(n - 2) : \E e \in {"zip", "rar"} :
          SameName(cs, SubSeq(name, i, i + 2), <<".", e, ".">>)
    \/ \E i \in 1..(n - 3) : SameName(cs, SubSeq(name, i, i + 3), <<".", "7", "z", ".">>)
    \/ \E f \in {Tool7z, ToolHpatchz, <<"hdiffz", ".", "exe">>, <<"version", ".", "dll">>} :
          SameName(cs, name, f)

\* How process_logical_archive ends for its caller: it returns val, which the
\* caller ORs into its flag, or it raises, which extract_all_multipart_and_process
\* catches and logs and main's loop does not catch.
Return(val) ==
    IF phase = "multi"
    THEN /\ patched_any' = (patched_any \/ val)
         /\ pc' = "multipart_loop"
         /\ UNCHANGED patch_done
    ELSE /\ patch_done' = (patch_done \/ val)
         /\ pc' = "single_loop"
         /\ UNCHANGED patched_any

Raise(logged) ==
    /\ UNCHANGED << patched_any, patch_done >>
    /\ IF phase = "multi"
       THEN /\ pc' = "multipart_loop"
            /\ log' = logged \cup {Msg("warning", "Error processing multipart", curKey)}
       ELSE /\ pc' = "crashed"
            /\ log' = logged

\* ------------------------------------------------------------------------
\* The actions

\* detect_game_folder
DetectGameFolder ==
    /\ pc = "start"
    /\ IF gameFolder
       THEN /\ pc' = "check_tools"
            /\ log' = log \cup {Msg("info", "Detected game folder", <<>>)}
       ELSE /\ pc' = "exit"
            /\ log' = log \cup {Msg("error", "No supported game folder found", <<>>)}
    /\ UNCHANGED << startTree, artifactUses, configWrites, run, phase, caseSensitive, gameFolder, cwdFiles, locked, contents,
                    deleteTxt, hdiffTxt, tree, lockedTree, hdiffs, audioOld, audioNew,
                    firsts, singles, cur, curKey, parts, idx, patched, patched_any,
                    patch_done, GAME_VERSION, config, steps, applied, toolOk,
                    diffFailed, delCount, diffCount, extracted, startFiles, prevPatched,
                    faults, verInput >>

\* Variant of check_tools that tests the first tool only.
check_tools_first_only(files) == Tool7z \in files

\* check_tools passes when every tool of TOOLS exists.
check_tools(files) == \A tool \in TOOLS : tool \in files

\* check_tools, then patch_done = False
CheckTools ==
    /\ pc = "check_tools"
    /\ IF check_tools(cwdFiles)
       THEN /\ pc' = "multipart_scan"
            /\ patch_done' = FALSE
            /\ log' = log
       ELSE /\ pc' = "exit"
            /\ UNCHANGED patch_done
            /\ LET tool == IF Tool7z \notin cwdFiles THEN Tool7z ELSE ToolHpatchz
               IN  log' = log \cup {Msg("error", "is missing", tool)}
    /\ UNCHANGED << startTree, artifactUses, configWrites, run, phase, caseSensitive, gameFolder, cwdFiles, locked, contents,
                    deleteTxt, hdiffTxt, tree, lockedTree, hdiffs, audioOld, audioNew,
                    firsts, singles, cur, curKey, parts, idx, patched, patched_any,
                    GAME_VERSION, config, steps, applied, toolOk,
                    diffFailed, delCount, diffCount, extracted, startFiles, prevPatched,
                    faults, verInput >>

\* The entry of extract_all_multipart_and_process: get_multipart_first_parts
GetMultipartFirstParts ==
    /\ pc = "multipart_scan"
    /\ phase' = "multi"
    /\ patched_any' = FALSE
    /\ firsts' = SortByName({f \in cwdFiles : is_multipart_first(f)})
    /\ pc' = "multipart_loop"
    /\ UNCHANGED << startTree, artifactUses, configWrites, run, caseSensitive, gameFolder, cwdFiles, locked, contents,
                    deleteTxt, hdiffTxt, tree, lockedTree, hdiffs, audioOld, audioNew,
                    singles, cur, curKey, parts, idx, patched,
                    patch_done, GAME_VERSION, config, log, steps, applied, toolOk,
                    diffFailed, delCount, diffCount, extracted, startFiles, prevPatched,
                    faults, verInput >>

\* What extract_with_7z writes for archive a: its payload when it succeeds,
\* nothing when it fails.
Payload(a, ok) == IF ok THEN contents[a] ELSE NoPayload

\* extract_with_7z -y on archive a: the payload is written over what is there.
extract_with_7z(a, ok) ==
    LET p == Payload(a, ok) IN
    /\ (ok => a \in cwdFiles)
    \* the archiver failing on an archive that is there is a failure of the environment
    /\ (~ok /\ a \in cwdFiles => faults < MaxFaults)
    /\ faults' = IF ~ok /\ a \in cwdFiles THEN faults + 1 ELSE faults
    /\ deleteTxt' = IF p.hasDel THEN [owner |-> a, entries |-> p.del] ELSE deleteTxt
    /\ hdiffTxt' = IF p.hasDiff THEN [owner |-> a, entries |-> p.diff] ELSE hdiffTxt
    /\ hdiffs' = hdiffs \cup p.hd
    /\ artifactUses' = [t \in DOMAIN artifactUses |-> IF t \in p.hd THEN 0 ELSE artifactUses[t]]
    /\ extracted' = extracted \cup ManifestsOf(p, a)
    /\ steps' = Append(steps, [a |-> a, s |-> "extract"])

\* extract_multipart_and_process up to its call of process_logical_archive
ExtractMultipart ==
    /\ pc = "multipart_loop"
    /\ firsts # <<>>
    /\ LET first == Head(firsts) IN
       \E ok \in BOOLEAN :
         /\ extract_with_7z(first, ok)
         /\ parts' = collect_parts_for_first(caseSensitive, first,
                        cwdFiles \cup ManifestFiles(Payload(first, ok)))
         /\ cwdFiles' = (cwdFiles \cup ManifestFiles(Payload(first, ok))) \ (parts' \ locked)
         /\ log' = log \cup {Msg("info", "Processing multipart archive", first)}
                       \cup (IF ok THEN {} ELSE {Msg("warning", "Failed to extract multipart", first)})
         /\ cur' = logical_name_from_first(first)
         /\ curKey' = first
    /\ firsts' = Tail(firsts)
    /\ pc' = "process"
    /\ UNCHANGED << startTree, configWrites, run, phase, caseSensitive, gameFolder, locked, contents,
                    tree, lockedTree, audioOld, audioNew,
                    singles, idx, patched, patched_any,
                    patch_done, GAME_VERSION, config, applied, toolOk,
                    diffFailed, delCount, diffCount, startFiles, prevPatched,
                    verInput >>

\* The return of extract_all_multipart_and_process into main, then main's
\* listing and filtering of the single archives.
ScanSingles ==
    /\ pc = "multipart_loop"
    /\ firsts = <<>>
    /\ patch_done' = patched_any
    /\ phase' = "single"
    /\ singles' = SortByName({n \in cwdFiles : GlobExt(caseSensitive, n) /\ ~is_part_file_name(n)})
    /\ pc' = "single_loop"
    /\ UNCHANGED << startTree, artifactUses, configWrites, run, caseSensitive, gameFolder, cwdFiles, locked, contents,
                    deleteTxt, hdiffTxt, tree, lockedTree, hdiffs, audioOld, audioNew,
                    firsts, cur, curKey, parts, idx, patched, patched_any,
                    GAME_VERSION, config, log, steps, applied, toolOk,
                    diffFailed, delCount, diffCount, extracted, startFiles, prevPatched,
                    faults, verInput >>

\* extract_single_archive
ExtractSingle ==
    /\ pc = "single_loop"
    /\ singles # <<>>
    /\ LET archive == Head(singles) IN
       \E ok \in BOOLEAN :
         /\ extract_with_7z(archive, ok)
         /\ cwdFiles' = (cwdFiles \cup ManifestFiles(Payload(archive, ok))) \ ({archive} \ locked)
         /\ log' = log \cup {Msg("info", "Processing archive", archive)}
                       \cup (IF ok THEN {} ELSE {Msg("warning", "Failed to extract", archive)})
         /\ cur' = archive
         /\ curKey' = archive
    /\ singles' = Tail(singles)
    /\ pc' = "process"
    /\ UNCHANGED << startTree, configWrites, run, phase, caseSensitive, gameFolder, locked, contents,
                    tree, lockedTree, audioOld, audioNew,
                    firsts, parts, idx, patched, patched_any,
                    patch_done, GAME_VERSION, config, applied, toolOk,
                    diffFailed, delCount, diffCount, startFiles, prevPatched,
                    verInput >>

\* migrate_audio_if_needed(game_folder, from_v, to_v), called by
\* process_logical_archive when needs_migration holds.
Migrate ==
    LET version_to == parse_from_to_versions_from_name(cur)[2] IN
    /\ steps' = Append(steps, [a |-> curKey, s |-> "migrate"])
    /\ \/ \* the version is unusable or the old tree is absent: returns False
          /\ ~migration_version_ok(version_to) \/ ~audioOld.exists
          /\ log' = log \cup {Msg("warning", "Migration indicated but did not complete", curKey)}
          /\ pc' = "hdiff_start"
          /\ UNCHANGED << audioOld, audioNew, patched_any, patch_done, faults >>
       \/ \* new.mkdir or dest.parent.mkdir raises, after some files were moved
          /\ migration_version_ok(version_to) /\ audioOld.exists
          /\ faults < MaxFaults
          /\ faults' = faults + 1
          /\ \E moved \in SUBSET audioOld.files :
               /\ audioOld' = [audioOld EXCEPT !.files = @ \ moved]
               /\ audioNew' = IF moved # {}
                              THEN [exists |-> TRUE, files |-> audioNew.files \cup moved]
                              ELSE audioNew
          /\ Raise(log)
       \/ \* every mkdir succeeds; a file whose move fails is not copied either
          \* (copytree of a file raises, which is swallowed); the old tree is removed
          /\ migration_version_ok(version_to) /\ audioOld.exists
          /\ \E failed \in SUBSET audioOld.files : \E kept \in SUBSET failed :
               /\ failed # {} => faults < MaxFaults
               /\ faults' = IF failed # {} THEN faults + 1 ELSE faults
               /\ audioNew' = [exists |-> TRUE,
                               files |-> audioNew.files \cup (audioOld.files \ failed)]
               \* rmtree(old, ignore_errors=True) leaves what it cannot remove
               /\ audioOld' = IF kept = {} THEN Gone ELSE [exists |-> TRUE, files |-> kept]
          /\ log' = log \cup {Msg("info", "Audio migration completed", <<>>)}
          /\ pc' = "hdiff_start"
          /\ UNCHANGED << patched_any, patch_done >>
    /\ UNCHANGED << cwdFiles, tree, hdiffs, gameFolder, delCount >>

\* The call of delete_files by process_logical_archive.
DeleteStep ==
    LET after == delete_files(DiskNow) IN
    /\ steps' = Append(steps, [a |-> curKey, s |-> "delete"])
    /\ cwdFiles' = after.cwd
    /\ tree' = after.tree
    /\ hdiffs' = after.hd
    /\ gameFolder' = after.gf
    /\ audioOld' = after.aold
    /\ audioNew' = after.anew
    /\ log' = after.log
    /\ delCount' = IF DeleteTxt \in cwdFiles
                   THEN [delCount EXCEPT ![deleteTxt.owner] = @ + 1]
                   ELSE delCount
    /\ pc' = "hdiff_start"
    /\ UNCHANGED << patched_any, patch_done, faults >>

\* process_logical_archive up to its call of apply_hdiff
ProcessLogicalArchive ==
    /\ pc = "process"
    /\ IF needs_migration(cur) THEN Migrate ELSE DeleteStep
    /\ UNCHANGED << startTree, artifactUses, configWrites, run, phase, caseSensitive, locked, contents,
                    deleteTxt, hdiffTxt, lockedTree,
                    firsts, singles, cur, curKey, parts, idx, patched,
                    GAME_VERSION, config, applied, toolOk,
                    diffFailed, diffCount, extracted, startFiles, prevPatched,
                    verInput >>

\* apply_hdiff up to its loop
ApplyHdiffStart ==
    /\ pc = "hdiff_start"
    /\ steps' = Append(steps, [a |-> curKey, s |-> "diff"])
    /\ IF HdiffTxt \notin cwdFiles
       THEN /\ Return(FALSE)
            /\ UNCHANGED << idx, patched, diffCount >>
       ELSE /\ patched' = FALSE
            /\ idx' = 1
            /\ diffCount' = [diffCount EXCEPT ![hdiffTxt.owner] = @ + 1]
            /\ pc' = "hdiff_loop"
            /\ UNCHANGED << patched_any, patch_done >>
    /\ UNCHANGED << startTree, artifactUses, configWrites, run, phase, caseSensitive, gameFolder, cwdFiles, locked, contents,
                    deleteTxt, hdiffTxt, tree, lockedTree, hdiffs, audioOld, audioNew,
                    firsts, singles, cur, curKey, parts,
                    GAME_VERSION, config, log, applied, toolOk,
                    diffFailed, delCount, extracted, startFiles, prevPatched,
                    faults, verInput >>

\* Variant of SkipsEntry without the test for the artifact.
SkipsBlankOnly(target, artifacts) == target = BlankLine

\* The two "continue" tests of the loop of apply_hdiff: the line is blank, or
\* <target>.hdiff does not exist.
SkipsEntry(target, artifacts) == target = BlankLine \/ target \notin artifacts

\* One pass of the loop of apply_hdiff
ApplyHdiffEntry ==
    /\ pc = "hdiff_loop"
    /\ idx <= Len(hdiffTxt.entries)
    /\ LET target == hdiffTxt.entries[idx] IN
       \/ \* a blank line, or no artifact: continue
          /\ SkipsEntry(target, hdiffs)
          /\ idx' = idx + 1
          /\ UNCHANGED << pc, patched, hdiffs, applied, artifactUses, toolOk, diffFailed, log,
                          patched_any, patch_done, faults >>
       \/ \* hpatchz succeeds
          /\ ~SkipsEntry(target, hdiffs)
          /\ patched' = TRUE
          /\ toolOk' = TRUE
          /\ applied' = [applied EXCEPT ![target] = @ + 1]
          /\ artifactUses' = [artifactUses EXCEPT ![target] = @ + 1]
          /\ hdiffs' = IF HdiffPath(target) \in lockedTree THEN hdiffs ELSE hdiffs \ {target}
          /\ log' = log \cup {Msg("info", "Patched", <<target>>)}
          /\ idx' = idx + 1
          /\ UNCHANGED << pc, diffFailed, patched_any, patch_done, faults >>
       \/ \* hpatchz fails: logged and re-raised
          /\ ~SkipsEntry(target, hdiffs)
          /\ faults < MaxFaults
          /\ faults' = faults + 1
          /\ diffFailed' = TRUE
          /\ Raise(log \cup {Msg("error", "hpatchz failed", <<target>>)})
          /\ UNCHANGED << idx, patched, hdiffs, applied, artifactUses, toolOk >>
    /\ UNCHANGED << startTree, configWrites, run, phase, caseSensitive, gameFolder, cwdFiles, locked, contents,
                    deleteTxt, hdiffTxt, tree, lockedTree, audioOld, audioNew,
                    firsts, singles, cur, curKey, parts,
                    GAME_VERSION, config, steps,
                    delCount, diffCount, extracted, startFiles, prevPatched,
                    verInput >>

\* The end of apply_hdiff and the return of process_logical_archive
ApplyHdiffEnd ==
    /\ pc = "hdiff_loop"
    /\ idx > Len(hdiffTxt.entries)
    /\ cwdFiles' = IF HdiffTxt \in locked THEN cwdFiles ELSE cwdFiles \ {HdiffTxt}
    /\ Return(patched)
    /\ UNCHANGED << startTree, artifactUses, configWrites, run, phase, caseSensitive, gameFolder, locked, contents,
                    deleteTxt, hdiffTxt, tree, lockedTree, hdiffs, audioOld, audioNew,
                    firsts, singles, cur, curKey, parts, idx, patched,
                    GAME_VERSION, config, log, steps, applied, toolOk,
                    diffFailed, delCount, diffCount, extracted, startFiles, prevPatched,
                    faults, verInput >>

\* Variant of writes_config without the test for the version.
writes_config_always(version) == TRUE

\* "if GAME_VERSION: write_config_ini()", and the test write_config_ini
\* repeats: the file is written when a version was detected.
writes_config(version) == version # NoVersion

\* The end of main's loop over the single archives: the block under
\* "if patch_done" (detect the version, write config.ini, cleanup_aux_files).
\* pending_delete_for_migration is never set, so its delete_files is never run.
PostPatch ==
    /\ pc = "single_loop"
    /\ singles = <<>>
    /\ IF patch_done
       THEN \E v \in {NoVersion, DetectedVersion} :
              /\ GAME_VERSION' = v
              /\ config' = IF writes_config(v) THEN v ELSE config
              /\ configWrites' = IF writes_config(v) THEN configWrites + 1 ELSE configWrites
              /\ log' = IF v = NoVersion
                        THEN log \cup {Msg("warning", "Game version could not be detected", <<>>)}
                        ELSE log
              /\ LET cwd == cwdFiles \cup (IF writes_config(v) THEN {ConfigIni} ELSE {})
                 IN  cwdFiles' = {f \in cwd : ~AuxPattern(caseSensitive, f) \/ f \in locked}
       ELSE UNCHANGED << GAME_VERSION, config, configWrites, log, cwdFiles >>
    /\ pc' = "cleanup_dirs"
    /\ UNCHANGED << startTree, artifactUses, run, phase, caseSensitive, gameFolder, locked, contents,
                    deleteTxt, hdiffTxt, tree, lockedTree, hdiffs, audioOld, audioNew,
                    firsts, singles, cur, curKey, parts, idx, patched, patched_any,
                    patch_done, steps, applied, toolOk,
                    diffFailed, delCount, diffCount, extracted, startFiles, prevPatched,
                    faults, verInput >>

\* path.rmdir() in the for loop of cleanup_empty_dirs: it succeeds on a
\* directory with nothing in it and raises, which is swallowed, on any other.
Rmdir(t, d) == IF d \in t /\ ~\E q \in t : q # d /\ IsUnder(q, d) THEN t \ {d} ELSE t

RECURSIVE RmdirEach(_, _, _)
RmdirEach(t, dirs, i) ==
    IF i > Len(dirs) THEN t ELSE RmdirEach(Rmdir(t, dirs[i]), dirs, i + 1)

\* Variant of EmptyDirsRemoved that removes each directory with what is in it.
EmptyDirsRemovedWithContent(t) == {p \in t : ~\E d \in t : IsDirPath(d) /\ IsUnder(p, d)}

\* One pass of the for loop of cleanup_empty_dirs over the game tree,
\* deepest paths first.
EmptyDirsRemoved(t) == RmdirEach(t, DirsDeepestFirst, 1)
EmptyAudioRemoved(a) == IF a.exists /\ a.files = {} THEN Gone ELSE a

\* A pass of cleanup_empty_dirs that removed a directory: the loop goes round.
CleanupPass ==
    /\ pc = "cleanup_dirs"
    /\ tree' = EmptyDirsRemoved(tree)
    /\ audioOld' = EmptyAudioRemoved(audioOld)
    /\ audioNew' = EmptyAudioRemoved(audioNew)
    /\ << tree', audioOld', audioNew' >> # << tree, audioOld, audioNew >>
    /\ UNCHANGED << startTree, pc, log, artifactUses, configWrites, run, phase, caseSensitive, gameFolder, cwdFiles, locked, contents,
                    deleteTxt, hdiffTxt, lockedTree, hdiffs,
                    firsts, singles, cur, curKey, parts, idx, patched, patched_any,
                    patch_done, GAME_VERSION, config, steps, applied, toolOk,
                    diffFailed, delCount, diffCount, extracted, startFiles, prevPatched,
                    faults, verInput >>

\* The pass of cleanup_empty_dirs that removes nothing, then "Patching finished."
CleanupAndFinish ==
    /\ pc = "cleanup_dirs"
    /\ tree' = EmptyDirsRemoved(tree)
    /\ audioOld' = EmptyAudioRemoved(audioOld)
    /\ audioNew' = EmptyAudioRemoved(audioNew)
    /\ << tree', audioOld', audioNew' >> = << tree, audioOld, audioNew >>
    /\ log' = log \cup {Msg("info", "Patching finished.", <<>>)}
    /\ pc' = "done"
    /\ UNCHANGED << startTree, artifactUses, configWrites, run, phase, caseSensitive, gameFolder, cwdFiles, locked, contents,
                    deleteTxt, hdiffTxt, lockedTree, hdiffs,
                    firsts, singles, cur, curKey, parts, idx, patched, patched_any,
                    patch_done, GAME_VERSION, config, steps, applied, toolOk,
                    diffFailed, delCount, diffCount, extracted, startFiles, prevPatched,
                    faults, verInput >>

\* The program is started again on what the finished run left on disk.
Rerun ==
    /\ pc = "done"
    /\ run < MaxRuns
    /\ run' = run + 1
    /\ pc' = "start"
    /\ phase' = "multi"
    /\ firsts' = <<>>
    /\ singles' = <<>>
    /\ cur' = <<>>
    /\ curKey' = <<>>
    /\ parts' = {}
    /\ idx' = 0
    /\ patched' = FALSE
    /\ patched_any' = FALSE
    /\ patch_done' = FALSE
    /\ GAME_VERSION' = NoVersion
    /\ log' = {}
    /\ steps' = <<>>
    /\ toolOk' = FALSE
    /\ diffFailed' = FALSE
    /\ delCount' = [a \in DOMAIN contents |-> 0]
    /\ diffCount' = [a \in DOMAIN contents |-> 0]
    /\ extracted' = {}
    /\ startFiles' = cwdFiles
    /\ startTree' = tree
    /\ prevPatched' = patch_done
    /\ configWrites' = 0
    /\ UNCHANGED << artifactUses, caseSensitive, gameFolder, cwdFiles, locked, contents,
                    deleteTxt, hdiffTxt, tree, lockedTree, hdiffs, audioOld, audioNew,
                    config, applied, faults, verInput >>

Next ==
    \/ DetectGameFolder
    \/ CheckTools
    \/ GetMultipartFirstParts
    \/ ExtractMultipart
    \/ ScanSingles
    \/ ExtractSingle
    \/ ProcessLogicalArchive
    \/ ApplyHdiffStart
    \/ ApplyHdiffEntry
    \/ ApplyHdiffEnd
    \/ PostPatch
    \/ CleanupPass
    \/ CleanupAndFinish
    \/ Rerun

Spec == Init /\ [][Next]_vars

\* ------------------------------------------------------------------------
\* Properties

BranchSteps == {"migrate", "delete"}
Terminal == {"exit", "crashed", "done"}
\* The archive processing of this run is over.
ArchivesDone == pc \in {"cleanup_dirs", "done"}
\* How many steps of kind k this run has taken for archive a.
StepCount(a, K) == Cardinality({i \in 1..Len(steps) : steps[i].a = a /\ steps[i].s \in K})
\* The archives the working directory held at the start of this run, each by
\* the file the archiver is pointed at.
Discovered == {a \in DOMAIN contents : a \in startFiles}

\* C1: for every archive the steps come in the order extract, then exactly one
\* of migration and delete manifest, then diff manifest; the diff step is run
\* whichever branch was taken; and an archive's three steps are over before
\* the next archive is extracted or the run ends.
C1_StepOrder ==
    /\ \A i \in 1..Len(steps) :
         /\ steps[i].s = "extract" => (i = 1 \/ steps[i - 1].s = "diff")
         /\ steps[i].s \in BranchSteps =>
              (i > 1 /\ steps[i - 1] = [a |-> steps[i].a, s |-> "extract"])
         /\ steps[i].s = "diff" =>
              (i > 1 /\ steps[i - 1].a = steps[i].a /\ steps[i - 1].s \in BranchSteps)
    /\ (steps # <<>> /\ (ArchivesDone \/ pc = "crashed")) => steps[Len(steps)].s = "diff"

\* What the version pair an archive name was written from asks for: migration
\* exactly when from is below 3.6 and to is at or above it, on (major, minor).
PairAsksMigration(in) ==
    /\ in.kind = "pair"
    /\ (in.f[1] < 3 \/ (in.f[1] = 3 /\ in.f[2] < 6))
    /\ (in.t[1] > 3 \/ (in.t[1] = 3 /\ in.t[2] >= 6))

\* C2: process_logical_archive takes the migration branch exactly for the
\* names whose version pair has from below 3.6 and to at or above 3.6 by
\* (major, minor), whatever the patch components; a name from which no pair
\* can be parsed gets the delete-manifest step.
C2_MigrationBranch ==
    \A i \in 1..Len(steps) :
        steps[i].s \in BranchSteps =>
            ((steps[i].s = "migrate") <=>
                IF verInput.kind # "none"
                THEN PairAsksMigration(verInput)
                ELSE steps[i].a = FA1)

\* C2, its case: the name g_3.5.9_3.10.zip or .7z (a patch component on the
\* source, a two-digit minor on the destination) took the migration branch.
C2_Witness ==
    /\ verInput.kind = "pair"
    /\ verInput.f = <<3, 5, 9>>
    /\ verInput.t = <<3, 10, -1>>
    /\ \E i \in 1..Len(steps) : steps[i].s = "migrate"

\* C3: once the binary-diff tool has failed, the run stops: no step of any
\* archive is started and no diff is applied after the failure.
C3_RunStopsOnDiffFailure ==
    [][(diffFailed /\ diffFailed') => (steps' = steps /\ applied' = applied)]_vars

\* C4: when archive processing is over, patch_done is true exactly when the
\* binary-diff tool succeeded on at least one entry in the run.
C4_PatchDoneIffApplied ==
    (pc = "single_loop" /\ singles = <<>>) => (patch_done <=> toolOk)

\* C5: a run directly after a run that patched passes the setup checks, logs
\* no error and ends with "Patching finished."
C5_SecondRunClean ==
    (run > 1 /\ prevPatched /\ pc \in Terminal) =>
        /\ pc = "done"
        /\ \A m \in log : m.lvl # "error"

\* The physical files of the archive whose first part is a.
GroupFiles(a) == FilesOf(CHOOSE g \in Groups : g[1] = a)

\* C6: once a multi-part archive has been extracted and its parts unlinked,
\* none of its part files is left in the working directory.  (A part whose
\* unlink the file system refuses is left out of the statement: what is
\* asked is that the program tries every part.)
C6_PartsDeleted ==
    \A i \in 1..Len(steps) :
        (steps[i].s = "extract" /\ steps[i].a \in FirstParts) =>
            \A f \in GroupFiles(steps[i].a) : f \notin cwdFiles \/ f \in locked

\* The names that begin with "update.zip.".
UpdatePrefixed(f) == Len(f) >= 4 /\ SubSeq(f, 1, 4) = <<"update", ".", "zip", ".">>

\* C7, as claimed: for update.zip.001 the group is the numbered parts of
\* update.zip and nothing else.
C7_ExactlyNumberedParts ==
    (pc = "process" /\ curKey = FU1) => parts \subseteq {FU1, FU2}

\* C7, amended: for update.zip.001 the group is every file of the working
\* directory whose name begins with "update.zip." (the numbered parts and any
\* other file with that prefix) and no file without that prefix; each of them
\* is unlinked.
C7_PrefixGroup ==
    (pc = "process" /\ curKey = FU1) =>
        /\ parts = {f \in startFiles : UpdatePrefixed(f)}
        /\ \A f \in parts : f \notin cwdFiles \/ f \in locked

\* C7, its case: update.zip.001 was processed with update.zip.002 and
\* update.zip.txt beside it, and the group held both.
C7_Witness ==
    /\ pc = "process" /\ curKey = FU1
    /\ FU2 \in parts /\ FUT \in parts
    /\ FUT \notin cwdFiles

\* C8: the archiver is only ever pointed at a first part or a single archive,
\* no part file is listed as a single archive, no archive is extracted or
\* processed twice in a run, and when archive processing is over every archive
\* the run found has been extracted once and processed once.
C8_EachArchiveOnce ==
    /\ \A i \in 1..Len(steps) :
         steps[i].s = "extract" => steps[i].a \notin (PartFiles \ FirstParts) \cup {FUT}
    /\ \A i \in 1..Len(singles) : singles[i] \notin PartFiles
    /\ \A a \in DOMAIN contents :
         StepCount(a, {"extract"}) <= 1 /\ StepCount(a, BranchSteps) <= 1
    /\ ArchivesDone =>
         \A a \in Discovered :
             StepCount(a, {"extract"}) = 1 /\ StepCount(a, BranchSteps) = 1

\* C8, its case: a later part whose unlink failed is still in the working
\* directory after the single archives were listed and processed.
C8_Witness ==
    /\ ArchivesDone
    /\ run = 1
    /\ FC2 \in cwdFiles /\ FC2 \in locked
    /\ StepCount(FC1, {"extract"}) = 1
    /\ StepCount(FO, {"extract"}) = 1

\* How often the manifest m was processed in this run.
ManifestCount(m) == IF m.kind = "delete" THEN delCount[m.owner] ELSE diffCount[m.owner]

\* C9: no manifest is processed twice, and when the run is over every
\* manifest that was extracted in it has been processed once.
C9_ManifestsOnce ==
    /\ \A a \in DOMAIN contents : delCount[a] <= 1 /\ diffCount[a] <= 1
    /\ pc = "done" => \A m \in extracted : ManifestCount(m) = 1

\* C10: in a delete_files that finds its manifest, a listed path that is
\* still there afterwards was logged as a failure, a listed path that can be
\* removed is removed, and the manifest is gone (unless its own unlink is
\* refused).
C10_DeleteEntries ==
    [][(pc = "process" /\ ~needs_migration(cur) /\ DeleteTxt \in cwdFiles) =>
          /\ \A i \in 1..Len(deleteTxt.entries) :
               LET e == deleteTxt.entries[i] IN
               /\ (e \in tree /\ e \in tree') =>
                     Msg("warning", "Failed to delete", <<e>>) \in log'
               /\ (e \in tree /\ ~\E q \in tree \cap lockedTree : IsUnder(q, e)) => e \notin tree'
          /\ DeleteTxt \notin cwdFiles' \/ DeleteTxt \in locked]_vars

\* C11: the artifact of a target that is on disk is applied at most once:
\* neither a duplicate entry of the manifest, nor a later archive's diff
\* step, nor a later run applies it a second time.
C11_ArtifactOnce ==
    \A t \in DOMAIN artifactUses : artifactUses[t] <= 1

\* C12: an entry whose artifact is missing is skipped: the tool is not
\* invoked, the patched result and everything but the position in the
\* manifest stay as they are, so the later entries are processed from the
\* state they would be processed from were the entry absent; and no entry
\* whose artifact is there is passed over.
C12_MissingArtifactSkipped ==
    [][/\ (/\ pc = "hdiff_loop" /\ idx <= Len(hdiffTxt.entries)
           /\ hdiffTxt.entries[idx] # BlankLine
           /\ hdiffTxt.entries[idx] \notin hdiffs) =>
             /\ idx' = idx + 1 /\ pc' = pc
             /\ patched' = patched /\ applied' = applied /\ toolOk' = toolOk
             /\ diffFailed' = diffFailed /\ faults' = faults
             /\ hdiffs' = hdiffs /\ cwdFiles' = cwdFiles /\ tree' = tree /\ log' = log
       /\ (pc' = "hdiff_loop" /\ ~diffFailed') =>
             \A j \in 1..(idx' - 1) :
                 hdiffTxt'.entries[j] \in hdiffs' => artifactUses'[hdiffTxt'.entries[j]] >= 1]_vars

\* C12, its case: the first entry of a manifest had no artifact and was
\* skipped, and the entry after it was applied.
C12_Witness ==
    /\ pc = "hdiff_loop"
    /\ Len(hdiffTxt.entries) = 2 /\ idx = 3
    /\ hdiffTxt.entries[1] = "t2" /\ hdiffTxt.entries[2] = "t1"
    /\ applied["t2"] = 0 /\ applied["t1"] = 1
    /\ patched

\* C13: whatever the migration step of an archive does, the diff step of the
\* same archive comes next, and the run is not ended by anything but a
\* failure of the binary-diff tool.
C13_MigrationNeverAborts ==
    /\ \A i \in 1..Len(steps) :
         steps[i].s = "migrate" =>
            IF i = Len(steps)
            THEN pc = "hdiff_start"
            ELSE steps[i + 1] = [a |-> steps[i].a, s |-> "diff"]
    /\ pc = "crashed" => diffFailed

\* What is on disk.
Disk == << cwdFiles, tree, hdiffs, audioOld, audioNew, gameFolder, config >>

\* C14: a run that finds no game folder, or finds a tool missing, goes to
\* its early exit and nowhere else; the exit is reached from the setup checks
\* only; the setup checks and the exit change nothing on disk and extract
\* nothing, so the disk at the exit is the disk at the start of the run.
C14_SetupFailureMutatesNothing ==
    [][/\ (pc = "start" /\ ~gameFolder) => pc' = "exit"
       /\ (pc = "check_tools" /\ ~({Tool7z, ToolHpatchz} \subseteq cwdFiles)) => pc' = "exit"
       /\ pc' = "exit" => pc \in {"start", "check_tools"}
       /\ pc \in {"start", "check_tools"} => Disk' = Disk
       /\ pc' \in {"start", "check_tools", "exit"} => (steps' = <<>> /\ cwdFiles' = startFiles')
       /\ pc = "exit" => UNCHANGED vars]_vars

\* C14, its case: the game folder and 7z.exe are there, hpatchz.exe is not;
\* the run is at its exit with the archive and the game tree untouched.
C14_Witness ==
    /\ pc = "exit" /\ run = 1
    /\ gameFolder /\ Tool7z \in cwdFiles /\ ToolHpatchz \notin cwdFiles
    /\ FO \in cwdFiles /\ cwdFiles = startFiles
    /\ tree = TreePaths /\ steps = <<>>

\* C15: config.ini is written at most once in a run; when it was written,
\* every archive of the run had been processed, the binary-diff tool had
\* succeeded at least once, a version had been detected and game_version is
\* that version; when no version was detected nothing was written and the
\* run went on to its cleanup.
C15_ConfigWrittenOnce ==
    /\ configWrites <= 1
    /\ configWrites = 1 =>
         /\ ArchivesDone /\ firsts = <<>> /\ singles = <<>>
         /\ \A a \in Discovered : StepCount(a, {"extract"}) = 1 /\ StepCount(a, BranchSteps) = 1
         /\ toolOk
         /\ GAME_VERSION = DetectedVersion /\ config = GAME_VERSION
         /\ ConfigIni \in cwdFiles
    /\ (ArchivesDone /\ GAME_VERSION = NoVersion) =>
         /\ configWrites = 0
         /\ run = 1 => (config = NoVersion /\ ConfigIni \notin cwdFiles)

\* C15, its case: a run that patched and detected the version has finished
\* with config.ini written once.
C15_Witness ==
    /\ pc = "done" /\ patch_done
    /\ configWrites = 1 /\ config = DetectedVersion /\ ConfigIni \in cwdFiles

\* The directories of t with nothing in them.
EmptyDirs(t) == {d \in t : IsDirPath(d) /\ ~\E q \in t : q # d /\ IsUnder(q, d)}
\* The paths of t that are files or have a file below them.
HoldsFile(t) == {p \in t : \E q \in t : ~IsDirPath(q) /\ IsUnder(q, p)}

Components(v) == Cardinality({k \in 1..Len(v) : v[k] = "."}) + 1
\* The version <<major, minor, patch>> written with three components.
ThreeComponents(v) == VerTokens(<<v[1], v[2], IF v[3] < 0 THEN 0 ELSE v[3]>>)

\* C17: normalize_version turns X.Y into X.Y.0 and returns a version of
\* three components as it is, and each version parse_from_to_versions_from_name
\* returns for the archive name being processed has three components.
C17_NormalizedVersions ==
    /\ verInput.kind = "pair" =>
         /\ normalize_version(VerTokens(verInput.f)) = ThreeComponents(verInput.f)
         /\ normalize_version(VerTokens(verInput.t)) = ThreeComponents(verInput.t)
    /\ pc = "process" =>
         \A i \in 1..2 :
            LET v == parse_from_to_versions_from_name(cur)[i]
            IN  v = NoVersion \/ Components(v) = 3

\* C17, its case: the archive name being processed was written from a
\* two-component source version and a three-component destination version,
\* and the source version was parsed with .0 added.
C17_Witness ==
    /\ pc = "process"
    /\ verInput.kind = "pair" /\ verInput.f[3] < 0 /\ verInput.t[3] = 9
    /\ parse_from_to_versions_from_name(cur)[1] = ThreeComponents(verInput.f)
    /\ parse_from_to_versions_from_name(cur)[2] = VerTokens(verInput.t)

\* C18: the delete-manifest step leaves alone everything its manifest does
\* not name: the files of the working directory other than the manifest, the
\* game folder, the diff artifacts, the audio trees, and every path of the
\* game tree that is neither a line of the manifest nor below one.  A blank
\* line names nothing.
C18_DeleteOnlyListed ==
    [][(pc = "process" /\ ~needs_migration(cur)) =>
          /\ \A f \in cwdFiles \ {DeleteTxt} : f \in cwdFiles'
          /\ gameFolder' = gameFolder
          /\ hdiffs' = hdiffs /\ audioOld' = audioOld /\ audioNew' = audioNew
          /\ \A p \in tree :
                (~\E i \in 1..Len(deleteTxt.entries) : IsUnder(p, deleteTxt.entries[i]))
                    => p \in tree']_vars

\* C19: the manifest a delete step or a diff step is about to process was
\* written by the extraction of the archive being processed.
C19_OwnManifest ==
    /\ (pc = "process" /\ ~needs_migration(cur) /\ DeleteTxt \in cwdFiles)
          => deleteTxt.owner = curKey
    /\ (pc = "hdiff_start" /\ HdiffTxt \in cwdFiles) => hdiffTxt.owner = curKey

\* C20: when migrate_audio_if_needed returns true, every file of the old
\* audio tree is in the new tree and the old tree is gone.
C20_NoAudioLost ==
    [][(/\ pc = "process" /\ needs_migration(cur)
        /\ Msg("info", "Audio migration completed", <<>>) \in log' \ log) =>
          /\ \A f \in audioOld.files : f \in audioNew'.files
          /\ ~audioOld'.exists]_vars

=============================================================================
